---- MODULE Spec2Model ----
(***************************************************************************)
(* Model of app.py (Competitor ASIN Grabber): seed validation, relation    *)
(* discovery (Keepa REST first, detail-page scrape as fallback), snapshot  *)
(* enrichment and score_and_filter.                                        *)
(*                                                                         *)
(* Conventions.  A Python str is a sequence of one-character strings.     *)
(* An optional str is [tag |-> "None" | "str", v |-> <chars>]; an optional *)
(* number is [tag |-> "None" | "NaN" | "num", v |-> <int>].  Prices and    *)
(* ratings are fixed-point, in hundredths (4.2 is 420, 15.00 is 1500);     *)
(* review counts are plain integers.                                       *)
(***************************************************************************)
EXTENDS Integers, Sequences, FiniteSets, TLC

VARIABLES pc, seed_asin, domain, max_items, prefer_keepa, KEEPA_KEY,
          related_asins, msg, rows, df, criteria, kept, dropped,
          requests, validated, keepaCalled, keepaResp, keepaOut,
          scrapeCalled, scrapePage, scrapeOut, fetchLog

vars == <<pc, seed_asin, domain, max_items, prefer_keepa, KEEPA_KEY,
          related_asins, msg, rows, df, criteria, kept, dropped,
          requests, validated, keepaCalled, keepaResp, keepaOut,
          scrapeCalled, scrapePage, scrapeOut, fetchLog>>

(***************************************************************************)
(* Bounds of the model.                                                    *)
(***************************************************************************)
\* max_items is drawn from 1..MaxItemsBound (the widget's 10..500 scaled down
\* so that the cap is reached by the small candidate sets below).
MaxItemsBound == 2
\* score_and_filter is applied to frames of at most MaxRows rows.
MaxRows == 3

(***************************************************************************)
(* Characters and str methods.                                             *)
(***************************************************************************)
Uppers == <<"A","B","C","D","E","F","G","H","I","J","K","L","M",
            "N","O","P","Q","R","S","T","U","V","W","X","Y","Z">>
Lowers == <<"a","b","c","d","e","f","g","h","i","j","k","l","m",
            "n","o","p","q","r","s","t","u","v","w","x","y","z">>
UpperSet == {Uppers[i] : i \in DOMAIN Uppers}
LowerSet == {Lowers[i] : i \in DOMAIN Lowers}
DigitSeq == <<"0","1","2","3","4","5","6","7","8","9">>
DigitSet == {DigitSeq[i] : i \in DOMAIN DigitSeq}
Whitespace == {" ", "\t", "\n"}

UpperChar(c) ==
    IF c \in LowerSet THEN Uppers[CHOOSE i \in DOMAIN Lowers : Lowers[i] = c] ELSE c

LowerChar(c) ==
    IF c \in UpperSet THEN Lowers[CHOOSE i \in DOMAIN Uppers : Uppers[i] = c] ELSE c

\* str.upper()
upper(s) == [i \in 1..Len(s) |-> UpperChar(s[i])]

\* str.lower()
lower(s) == [i \in 1..Len(s) |-> LowerChar(s[i])]

\* str.strip()
strip(s) ==
    LET keep == {i \in 1..Len(s) : s[i] \notin Whitespace}
    IN  IF keep = {} THEN <<>>
        ELSE LET a == CHOOSE i \in keep : \A j \in keep : i <= j
                 b == CHOOSE i \in keep : \A j \in keep : j <= i
             IN  SubSeq(s, a, b)

\* Python's "sub in s"
Contains(sub, s) ==
    \E i \in 0..(Len(s) - Len(sub)) : SubSeq(s, i + 1, i + Len(sub)) = sub

\* s[pos:].startswith(lit), pos 1-based
StartsWithAt(s, pos, lit) ==
    /\ pos + Len(lit) - 1 <= Len(s)
    /\ SubSeq(s, pos, pos + Len(lit) - 1) = lit

\* The end of the maximal run of characters of C that starts at s[i] (s[i] \in C).
RunEnd(s, i, C) ==
    CHOOSE j \in i..Len(s) :
        /\ \A k \in i..j : s[k] \in C
        /\ (j = Len(s) \/ s[j + 1] \notin C)

\* seq[:n]
Take(seq, n) == SubSeq(seq, 1, IF n < Len(seq) THEN n ELSE Len(seq))

Range(seq) == {seq[i] : i \in DOMAIN seq}

\* list(a_set): Python fixes no iteration order for a set of str (the order
\* follows the per-process randomised string hash), so every enumeration of the
\* set is a possible outcome.
ListOfSet(S) ==
    {q \in [1..Cardinality(S) -> S] : \A i, j \in 1..Cardinality(S) : q[i] = q[j] => i = j}

(***************************************************************************)
(* Optional values.                                                        *)
(***************************************************************************)
NoneStr == [tag |-> "None", v |-> <<>>]
Str(s) == [tag |-> "str", v |-> s]
NoneNum == [tag |-> "None", v |-> 0]
NaN == [tag |-> "NaN", v |-> 0]
Num(n) == [tag |-> "num", v |-> n]

(***************************************************************************)
(* Identifier patterns.                                                    *)
(***************************************************************************)
\* the {8} of the three ASIN patterns
TailLen == 8

\* re.fullmatch(r"B0[A-Z0-9]{8}", s)
IsAsin(s) ==
    /\ Len(s) = 2 + TailLen
    /\ s[1] = "B"
    /\ s[2] = "0"
    /\ \A i \in 3..(2 + TailLen) : s[i] \in UpperSet \cup DigitSet

\* mutant: the pattern without its length ({8} and fullmatch lost)
SeedPatternOK_PrefixOnly(s) ==
    /\ Len(s) >= 2
    /\ s[1] \in {"B", "b"}
    /\ s[2] = "0"

\* re.fullmatch(r"[Bb]0[A-Za-z0-9]{8}", seed_asin or "")
SeedPatternOK(s) ==
    /\ Len(s) = 2 + TailLen
    /\ s[1] \in {"B", "b"}
    /\ s[2] = "0"
    /\ \A i \in 3..(2 + TailLen) : s[i] \in UpperSet \cup LowerSet \cup DigitSet

(***************************************************************************)
(* Test data: identifiers as they may appear in seeds, payloads and markup.*)
(***************************************************************************)
SeedUpper == <<"B","0","D","4","Q","M","B","S","7","5">>
SeedLower == <<"b","0","d","4","q","m","b","s","7","5">>
SeedShort == <<"B","0","D","4","Q","M","B","S","7">>
Cand1 == <<"B","0","A","A","A","A","A","A","A","1">>
Cand1Lower == <<"b","0","a","a","a","a","a","a","a","1">>
Cand2 == <<"B","0","B","B","B","B","B","B","B","2">>
Cand2Mixed == <<"b","0","B","B","B","b","b","b","b","2">>
Cand1Padded == <<" ","b","0","a","a","a","a","a","a","a","1","\n">>
NotAsin == <<"X","Y","Z">>
TooLong == <<"B","0","A","A","A","A","A","A","A","1","2">>

\* what the user may type into the ASIN box (line 283 strips it)
SeedInputs == {SeedUpper, SeedLower, SeedShort}

Domains == {"amazon.co.uk", "amazon.com"}

(***************************************************************************)
(* _keepa_fetch_related_rest                                               *)
(***************************************************************************)
\* domain_map.get(domain, 2)
domain_map(d) ==
    CASE d = "amazon.co.uk" -> 2
      [] d = "amazon.com" -> 1
      [] d = "amazon.de" -> 3
      [] d = "amazon.fr" -> 8
      [] d = "amazon.it" -> 10
      [] d = "amazon.es" -> 9
      [] OTHER -> 2

\* A Keepa exchange: the request or r.json() raises, or a JSON object arrives
\* with an "error" value ("" when absent or falsy) and a "products" list
\* (<<>> when absent or empty).  A product carries the four relation lists
\* (<<>> when the key is absent or its value is None).
Product(ab, av, fbt, rel) ==
    [alsoBought |-> ab, alsoViewed |-> av, frequentlyBoughtTogether |-> fbt, related |-> rel]

KeepaRaises == [kind |-> "exception", error |-> "", products |-> <<>>]
KeepaJson(err, prods) == [kind |-> "json", error |-> err, products |-> prods]

KeepaResponses ==
    { KeepaRaises,
      KeepaJson("invalid key", <<>>),
      KeepaJson("", <<>>),
      KeepaJson("", <<Product(<<>>, <<>>, <<>>, <<>>)>>),
      KeepaJson("", <<Product(<<SeedLower, NotAsin>>, <<>>, <<TooLong>>, <<SeedUpper>>)>>),
      KeepaJson("", <<Product(<<Cand1>>, <<>>, <<>>, <<Cand1Lower, SeedLower>>)>>),
      KeepaJson("", <<Product(<<Cand2Mixed, Cand1>>, <<Cand1, SeedUpper>>, <<NotAsin>>, <<Cand2>>)>>),
      KeepaJson("", <<Product(<<>>, <<Cand1Lower>>, <<Cand2>>, <<>>)>>) }

\* the entries of the four relation fields, in the order the loops visit them
RelationEntries(p) ==
    p.alsoBought \o p.alsoViewed \o p.frequentlyBoughtTogether \o p.related

\* mutant: the seed is not discarded
KeepaRelatedSet_SeedKept(asin, p) ==
    {upper(x) : x \in {y \in Range(RelationEntries(p)) : IsAsin(upper(y))}}

\* lines 176-184: the set built by the two loops, the seed discarded
KeepaRelatedSet(asin, p) ==
    {upper(x) : x \in {y \in Range(RelationEntries(p)) : IsAsin(upper(y))}} \ {upper(asin)}

\* mutant: the slice is lost
KeepaOutLists_Uncapped(asin, p, n) ==
    ListOfSet(KeepaRelatedSet(asin, p))

\* line 185: out = list(related)[:max_items]
KeepaOutLists(asin, p, n) ==
    {Take(q, n) : q \in ListOfSet(KeepaRelatedSet(asin, p))}

\* Every (out, msg) the function can return for one exchange.  msg names the
\* diagnostic: "None" is Python's None.
_keepa_fetch_related_rest(asin, d, api_key, n, resp) ==
    IF api_key = "" THEN {[out |-> <<>>, msg |-> "NoKey"]}
    ELSE IF resp.kind = "exception" THEN {[out |-> <<>>, msg |-> "RequestFailed"]}
    ELSE IF resp.error # "" THEN {[out |-> <<>>, msg |-> "ApiError"]}
    ELSE IF resp.products = <<>> THEN {[out |-> <<>>, msg |-> "EmptyProducts"]}
    ELSE {[out |-> o, msg |-> IF o = <<>> THEN "NoRelated" ELSE "None"] :
              o \in KeepaOutLists(asin, resp.products[1], n)}

(***************************************************************************)
(* _scrape_related_asins_from_dp                                           *)
(***************************************************************************)
\* A detail-page exchange: requests.get raises, or a response arrives with a
\* status; BeautifulSoup or the loops may raise on its text (parseError);
\* otherwise the page shows data-asin attribute values and <a href> values,
\* in document order.
DpRaises == [kind |-> "transport_error", status |-> 0, parseError |-> FALSE,
             dataAsins |-> <<>>, hrefs |-> <<>>]
DpResponse(st, pe, da, hr) == [kind |-> "response", status |-> st, parseError |-> pe,
                               dataAsins |-> da, hrefs |-> hr]

HrefCand2 == <<"/","d","p","/","B","0","B","B","B","B","B","B","B","2","/","r","e","f">>
HrefCand1Lower == <<"h","t","t","p","s",":","/","/","x","/","d","p","/","b","0","a","a","a","a","a","a","a","1">>

DpPages ==
    { DpRaises,
      DpResponse(503, FALSE, <<>>, <<>>),
      DpResponse(200, TRUE, <<Cand1>>, <<>>),
      DpResponse(200, FALSE, <<>>, <<HrefCand2, HrefCand1Lower>>),
      DpResponse(200, FALSE, <<SeedLower, <<>>, NotAsin>>, <<>>),
      DpResponse(200, FALSE, <<Cand1Padded, SeedUpper, Cand1>>, <<HrefCand2>>),
      DpResponse(200, FALSE, <<Cand2Mixed, Cand1Lower, SeedLower>>, <<>>) }

DpLiteral == <<"/","d","p","/">>

\* re.search(r"/dp/(B0[A-Z0-9]{8})", h): the group of the leftmost match, as a
\* set (empty when there is no match)
DpSearch(h) ==
    LET hits == {i \in 1..Len(h) :
                    /\ StartsWithAt(h, i, DpLiteral)
                    /\ i + 3 + 2 + TailLen <= Len(h)
                    /\ IsAsin(SubSeq(h, i + 4, i + 3 + 2 + TailLen))}
    IN  IF hits = {} THEN {}
        ELSE LET i == CHOOSE k \in hits : \A j \in hits : k <= j
             IN  {SubSeq(h, i + 4, i + 3 + 2 + TailLen)}

\* lines 118-132: the set after both loops and the discard
ScrapeSet(asin, page) ==
    LET fromAttrs == {strip_upper \in {upper(strip(x)) : x \in Range(page.dataAsins)} :
                         IsAsin(strip_upper)}
        fromLinks == UNION {DpSearch(upper(h)) : h \in Range(page.hrefs)}
    IN  (({upper(asin)} \cup fromAttrs) \cup fromLinks) \ {upper(asin)}

\* The body of the try block: either returns a list or raises.
ScrapeBody(asin, page, n) ==
    IF page.kind = "transport_error" THEN {[raised |-> TRUE, value |-> <<>>]}
    ELSE IF page.status # 200 THEN {[raised |-> FALSE, value |-> <<>>]}
    ELSE IF page.parseError THEN {[raised |-> TRUE, value |-> <<>>]}
    ELSE {[raised |-> FALSE, value |-> Take(q, n)] : q \in ListOfSet(ScrapeSet(asin, page))}

\* try: ... except Exception: return []
_scrape_related_asins_from_dp(asin, d, n, page) ==
    {IF b.raised THEN [raised |-> FALSE, value |-> <<>>] ELSE b : b \in ScrapeBody(asin, page, n)}

(***************************************************************************)
(* Number parsing.                                                         *)
(***************************************************************************)
DigitVal(c) == (CHOOSE i \in DOMAIN DigitSeq : DigitSeq[i] = c) - 1

\* the value of a str of decimal digits (0 for the empty str)
RECURSIVE DigitsValue(_)
DigitsValue(ds) ==
    IF ds = <<>> THEN 0
    ELSE DigitsValue(SubSeq(ds, 1, Len(ds) - 1)) * 10 + DigitVal(ds[Len(ds)])

\* s with only the characters of C kept
RECURSIVE KeepOnly(_, _)
KeepOnly(s, C) ==
    IF s = <<>> THEN <<>>
    ELSE (IF s[1] \in C THEN <<s[1]>> ELSE <<>>) \o KeepOnly(Tail(s), C)

\* float(v) for a v of digits and dots: a number needs at least one digit and at
\* most one dot; anything else raises ValueError (NoneNum here).  The value is
\* in hundredths, digits past the second decimal dropped.
ParseFloat(v) ==
    LET dots == {i \in 1..Len(v) : v[i] = "."}
        digits == {i \in 1..Len(v) : v[i] \in DigitSet}
    IN  IF digits = {} \/ Cardinality(dots) > 1 \/ dots \cup digits # 1..Len(v)
        THEN NoneNum
        ELSE LET d == IF dots = {} THEN Len(v) + 1 ELSE CHOOSE i \in dots : TRUE
                 whole == SubSeq(v, 1, d - 1)
                 frac == Take(SubSeq(v, d + 1, Len(v)) \o <<"0","0">>, 2)
             IN  Num(DigitsValue(whole) * 100 + DigitsValue(frac))

\* _format_price (txt is an optional str)
_format_price(txt) ==
    IF txt.tag = "None" THEN NoneNum
    ELSE ParseFloat(KeepOnly(KeepOnly(txt.v, DigitSet \cup {".", ","}), DigitSet \cup {"."}))

(***************************************************************************)
(* _fetch_mobile_product_snapshot                                          *)
(***************************************************************************)
\* A mobile-page exchange: requests.get raises, or a response arrives with a
\* status; the parser may raise on its text (parseError); otherwise the page
\* gives, for each selector, the text of the element found (None when no element
\* matches): #title (get_text(strip=True)), the price element, the rating
\* element or string, the review-count element or string.
MobileRaises == [kind |-> "transport_error", status |-> 0, parseError |-> FALSE,
                 title |-> NoneStr, priceText |-> NoneStr,
                 ratingText |-> NoneStr, reviewsText |-> NoneStr]
MobileResponse(st, pe, t, p, ra, rv) ==
    [kind |-> "response", status |-> st, parseError |-> pe,
     title |-> t, priceText |-> p, ratingText |-> ra, reviewsText |-> rv]

TitleBrew == <<"B","r","e","w"," ","K","i","t">>
TitleReptile == <<"R","e","p","t","i","l","e"," ","M","a","t">>
TitleHeat == <<"H","e","a","t"," ","M","a","t">>
Price15 == <<"£","1","5",".","0","0">>
Price20 == <<"£","2","0",".","0","0">>
PriceNA == <<"N","/","A">>
Rating42 == <<"4",".","2"," ","o","u","t"," ","o","f"," ","5"," ","s","t","a","r","s">>
Rating45 == <<"R","a","t","e","d"," ","4",".","5"," "," ","o","u","t"," ","o","f"," ","5">>
RatingDots == <<".","."," ","o","u","t"," ","o","f"," ","5">>
Reviews50 == <<"5","0"," ","r","a","t","i","n","g","s">>
Reviews1200 == <<"1",",","2","0","0"," ","r","a","t","i","n","g","s">>
ReviewsComma == <<","," ","r","a","t","i","n","g","s">>

PageBrew == MobileResponse(200, FALSE, Str(TitleBrew), Str(Price15), Str(Rating42), Str(Reviews50))
PageReptile == MobileResponse(200, FALSE, Str(TitleReptile), Str(Price20), Str(Rating45), Str(Reviews1200))
PageHeat == MobileResponse(200, FALSE, Str(TitleHeat), Str(PriceNA), Str(RatingDots), Str(Reviews50))
PageBare == MobileResponse(200, FALSE, NoneStr, NoneStr, NoneStr, NoneStr)
PageCommaReviews == MobileResponse(200, FALSE, Str(TitleBrew), Str(Price15), Str(Rating42), Str(ReviewsComma))

MobilePages ==
    { MobileRaises,
      MobileResponse(404, FALSE, Str(TitleBrew), Str(Price15), Str(Rating42), Str(Reviews50)),
      MobileResponse(200, TRUE, Str(TitleBrew), Str(Price15), Str(Rating42), Str(Reviews50)),
      PageBrew, PageReptile, PageHeat, PageBare, PageCommaReviews }

OutOf5 == <<"o","u","t"," ","o","f"," ","5">>

\* re.search(r"([\d\.]+)\s*out of 5", text): group 1 of the leftmost match, as
\* a set (empty when there is no match)
RatingSearch(text) ==
    LET C == DigitSet \cup {"."}
        after(i) == LET j == RunEnd(text, i, C)
                    IN  IF j < Len(text) /\ text[j + 1] \in Whitespace
                        THEN RunEnd(text, j + 1, Whitespace) + 1 ELSE j + 1
        hits == {i \in 1..Len(text) : text[i] \in C /\ StartsWithAt(text, after(i), OutOf5)}
    IN  IF hits = {} THEN {}
        ELSE LET i == CHOOSE k \in hits : \A j \in hits : k <= j
             IN  {SubSeq(text, i, RunEnd(text, i, C))}

\* re.search(r"([\d,]+)", text): group 1 of the leftmost match, as a set
ReviewsSearch(text) ==
    LET C == DigitSet \cup {","}
        hits == {i \in 1..Len(text) : text[i] \in C}
    IN  IF hits = {} THEN {}
        ELSE LET i == CHOOSE k \in hits : \A j \in hits : k <= j
             IN  {SubSeq(text, i, RunEnd(text, i, C))}

\* the canonical product URL f"https://{domain}/dp/{asin}"
DpUrl(d, asin) == [host |-> d, path |-> "/dp/", asin |-> asin]

Snapshot(asin, t, p, ra, rv, u) ==
    [asin |-> asin, title |-> t, price |-> p, rating |-> ra, reviews |-> rv, url |-> u]

\* the dict of lines 68 and 100
EmptySnapshot(asin, d) == Snapshot(asin, NoneStr, NoneNum, NoneNum, NoneNum, DpUrl(d, asin))

\* lines 79-88
RatingOf(page) ==
    IF page.ratingText.tag = "None" THEN NoneNum
    ELSE LET m == RatingSearch(page.ratingText.v)
         IN  IF m = {} THEN NoneNum ELSE ParseFloat(CHOOSE g \in m : TRUE)

\* line 96: int(m.group(1).replace(",", "")) raises ValueError when the group
\* holds no digit
ReviewsRaises(page) ==
    /\ page.reviewsText.tag # "None"
    /\ \E g \in ReviewsSearch(page.reviewsText.v) : KeepOnly(g, DigitSet) = <<>>

\* lines 90-96
ReviewsOf(page) ==
    IF page.reviewsText.tag = "None" THEN NoneNum
    ELSE LET m == ReviewsSearch(page.reviewsText.v)
         IN  IF m = {} THEN NoneNum
             ELSE Num(DigitsValue(KeepOnly(CHOOSE g \in m : TRUE, DigitSet)))

\* The body of the try block (lines 66-98): returns a dict or raises.
SnapshotBody(asin, d, page) ==
    IF page.kind = "transport_error" THEN [raised |-> TRUE, value |-> EmptySnapshot(asin, d)]
    ELSE IF page.status # 200 THEN [raised |-> FALSE, value |-> EmptySnapshot(asin, d)]
    ELSE IF page.parseError \/ ReviewsRaises(page)
         THEN [raised |-> TRUE, value |-> EmptySnapshot(asin, d)]
    ELSE [raised |-> FALSE,
          value |-> Snapshot(asin, page.title, _format_price(page.priceText),
                             RatingOf(page), ReviewsOf(page), DpUrl(d, asin))]

\* mutant: no except clause, the body's exception escapes
_fetch_mobile_product_snapshot_Unguarded(asin, d, page) ==
    SnapshotBody(asin, d, page)

\* try: ... except Exception: return {... all None ...}
_fetch_mobile_product_snapshot(asin, d, page) ==
    LET b == SnapshotBody(asin, d, page)
    IN  IF b.raised THEN [raised |-> FALSE, value |-> EmptySnapshot(asin, d)] ELSE b

(***************************************************************************)
(* pd.DataFrame(rows, columns=[...])                                       *)
(***************************************************************************)
\* A numeric column's dtype: a column holding a number and a None becomes
\* float64, its None stored as NaN; a column of only None stays object and
\* keeps None.
ColumnValue(col, x) ==
    IF x.tag = "None" /\ \E i \in DOMAIN col : col[i].tag = "num" THEN NaN ELSE x

DataFrame(rs) ==
    [i \in 1..Len(rs) |->
        [idx |-> i - 1,
         asin |-> rs[i].asin,
         title |-> rs[i].title,
         price |-> ColumnValue([k \in 1..Len(rs) |-> rs[k].price], rs[i].price),
         rating |-> ColumnValue([k \in 1..Len(rs) |-> rs[k].rating], rs[i].rating),
         reviews |-> ColumnValue([k \in 1..Len(rs) |-> rs[k].reviews], rs[i].reviews),
         url |-> rs[i].url]]

(***************************************************************************)
(* score_and_filter                                                        *)
(***************************************************************************)
\* [t.strip().lower() for t in (terms or []) if t.strip()]
RECURSIVE NormalizeTerms(_)
NormalizeTerms(terms) ==
    IF terms = <<>> THEN <<>>
    ELSE (IF strip(terms[1]) = <<>> THEN <<>> ELSE <<lower(strip(terms[1]))>>)
         \o NormalizeTerms(Tail(terms))

\* contains_any(text, terms)
contains_any(text, terms) ==
    \E i \in DOMAIN terms :
        /\ lower(strip(terms[i])) # <<>>
        /\ Contains(lower(strip(terms[i])), text)

\* line 216: fillna("").astype(str).str.lower()
WorkTitle(t) == IF t.tag = "None" THEN <<>> ELSE lower(t.v)

\* lines 242-245
IncludeScore(title, include_terms) ==
    Cardinality({i \in DOMAIN include_terms : Contains(include_terms[i], title)})

\* isinstance(x, (int, float)) and x < bound: NaN is a float and compares False
Below(x, bound) == x.tag = "num" /\ x.v < bound.v
Above(x, bound) == x.tag = "num" /\ x.v > bound.v

\* lines 252-260
ThresholdDrop(row, c) ==
    \/ c.price_min.tag # "None" /\ Below(row.price, c.price_min)
    \/ c.price_max.tag # "None" /\ Above(row.price, c.price_max)
    \/ c.rating_min.tag # "None" /\ (row.rating.tag = "None" \/ Below(row.rating, c.rating_min))
    \/ c.reviews_min.tag # "None" /\ (row.reviews.tag = "None" \/ Below(row.reviews, c.reviews_min))

\* mutant: an include hit overrides the exclude terms
RowDecision_IncludeWins(row, c) ==
    LET title == WorkTitle(row.title)
        score == IncludeScore(title, NormalizeTerms(c.include_terms))
    IN  IF score = 0 /\ contains_any(title, NormalizeTerms(c.exclude_terms))
        THEN [drop |-> TRUE, score |-> 0]
        ELSE [drop |-> ThresholdDrop(row, c), score |-> score]

\* lines 232-263 for one row: the pair appended to drops_mask and scores
RowDecision(row, c) ==
    LET title == WorkTitle(row.title)
    IN  IF contains_any(title, NormalizeTerms(c.exclude_terms))
        THEN [drop |-> TRUE, score |-> 0]
        ELSE [drop |-> ThresholdDrop(row, c),
              score |-> IncludeScore(title, NormalizeTerms(c.include_terms))]

\* a row of work, with the RelevanceScore column
WorkRow(row, c) ==
    [idx |-> row.idx, asin |-> row.asin, title |-> WorkTitle(row.title),
     price |-> row.price, rating |-> row.rating, reviews |-> row.reviews,
     url |-> row.url, RelevanceScore |-> RowDecision(row, c).score]

\* one sort column, descending, missing values (None, NaN) last
ColGt(x, y) == x.tag = "num" /\ (y.tag # "num" \/ x.v > y.v)
ColEq(x, y) == (x.tag # "num" /\ y.tag # "num") \/ (x.tag = "num" /\ y.tag = "num" /\ x.v = y.v)

\* mutant: by=["reviews", "RelevanceScore", "rating"]
SortsBefore_ReviewsFirst(a, b) ==
    \/ ColGt(a.reviews, b.reviews)
    \/ /\ ColEq(a.reviews, b.reviews)
       /\ \/ a.RelevanceScore > b.RelevanceScore
          \/ a.RelevanceScore = b.RelevanceScore /\ ColGt(a.rating, b.rating)

\* a sorts strictly before b under by=["RelevanceScore", "reviews", "rating"],
\* ascending=[False, False, False]
SortsBefore(a, b) ==
    \/ a.RelevanceScore > b.RelevanceScore
    \/ /\ a.RelevanceScore = b.RelevanceScore
       /\ \/ ColGt(a.reviews, b.reviews)
          \/ ColEq(a.reviews, b.reviews) /\ ColGt(a.rating, b.rating)

\* x put into a sorted sequence behind every element it does not sort before
InsertStable(sorted, x) ==
    LET later == {i \in DOMAIN sorted : SortsBefore(x, sorted[i])}
        at == IF later = {} THEN Len(sorted) + 1
              ELSE CHOOSE i \in later : \A j \in later : i <= j
    IN  SubSeq(sorted, 1, at - 1) \o <<x>> \o SubSeq(sorted, at, Len(sorted))

\* kept.sort_values(...): a stable sort
RECURSIVE sort_values(_)
sort_values(seq) ==
    IF seq = <<>> THEN <<>>
    ELSE InsertStable(sort_values(SubSeq(seq, 1, Len(seq) - 1)), seq[Len(seq)])

RECURSIVE SelectRows(_, _, _)
SelectRows(frame, c, wantDropped) ==
    IF frame = <<>> THEN <<>>
    ELSE (IF RowDecision(frame[1], c).drop = wantDropped
          THEN <<WorkRow(frame[1], c)>> ELSE <<>>)
         \o SelectRows(Tail(frame), c, wantDropped)

score_and_filter(frame, c) ==
    IF frame = <<>> THEN [kept |-> <<>>, dropped |-> <<>>]
    ELSE [kept |-> sort_values(SelectRows(frame, c, FALSE)),
          dropped |-> SelectRows(frame, c, TRUE)]

Criteria(inc, exc, pmin, pmax, rmin, vmin) ==
    [include_terms |-> inc, exclude_terms |-> exc, price_min |-> pmin,
     price_max |-> pmax, rating_min |-> rmin, reviews_min |-> vmin]

NoCriteria == Criteria(<<>>, <<>>, NoneNum, NoneNum, NoneNum, NoneNum)

(***************************************************************************)
(* The filter widgets and lines 344-345.                                   *)
(***************************************************************************)
\* s.split(",")
RECURSIVE SplitComma(_)
SplitComma(s) ==
    LET commas == {i \in 1..Len(s) : s[i] = ","}
    IN  IF commas = {} THEN <<s>>
        ELSE LET i == CHOOSE k \in commas : \A j \in commas : k <= j
             IN  <<SubSeq(s, 1, i - 1)>> \o SplitComma(SubSeq(s, i + 1, Len(s)))

\* [x.strip() for x in s.split(",")]
TermsOf(s) == LET parts == SplitComma(s) IN [i \in 1..Len(parts) |-> strip(parts[i])]

IncludeInputs == {<<"b","r","e","w",","," ","K","i","t"," ",",","m","a","t">>, <<>>}
ExcludeInputs == {<<"R","e","p","t","i","l","e"," ",","," ",",","p","e","t">>, <<>>}

\* what the number_input widgets can hand over: always a number, never None
WidgetCriteria ==
    {Criteria(TermsOf(inc), TermsOf(exc), Num(1000), Num(6000), rmin, vmin) :
        inc \in IncludeInputs, exc \in ExcludeInputs,
        rmin \in {Num(0), Num(380)}, vmin \in {Num(0), Num(20)}}

(***************************************************************************)
(* The button handler (lines 307-352), one step per network exchange.      *)
(* history: requests logs every request issued; keepaResp, scrapePage and  *)
(* fetchLog record what the network answered.                              *)
(***************************************************************************)
Request(kind, asin, host, code) == [kind |-> kind, asin |-> asin, host |-> host, code |-> code]

Init ==
    /\ pc = "clicked"
    /\ seed_asin \in {strip(x) : x \in SeedInputs}
    /\ domain \in Domains
    /\ max_items \in 1..MaxItemsBound
    /\ prefer_keepa \in BOOLEAN
    /\ KEEPA_KEY \in {"", "key"}
    /\ related_asins = <<>>
    /\ msg = "None"
    /\ rows = <<>>
    /\ df = <<>>
    /\ criteria = NoCriteria
    /\ kept = <<>>
    /\ dropped = <<>>
    /\ requests = <<>>
    /\ validated = FALSE
    /\ keepaCalled = FALSE
    /\ keepaResp = KeepaRaises
    /\ keepaOut = <<>>
    /\ scrapeCalled = FALSE
    /\ scrapePage = DpRaises
    /\ scrapeOut = <<>>
    /\ fetchLog = <<>>

\* lines 309-312
Validate ==
    /\ pc = "clicked"
    /\ IF ~SeedPatternOK(seed_asin)
       THEN /\ pc' = "stopped"
            /\ UNCHANGED <<seed_asin, validated>>
       ELSE /\ seed_asin' = upper(seed_asin)
            /\ validated' = TRUE
            /\ pc' = "keepa"
    /\ UNCHANGED <<domain, max_items, prefer_keepa, KEEPA_KEY, related_asins, msg,
                   rows, df, criteria, kept, dropped, requests, keepaCalled,
                   keepaResp, keepaOut, scrapeCalled, scrapePage, scrapeOut, fetchLog>>

\* lines 315-320
KeepaStep ==
    /\ pc = "keepa"
    /\ IF prefer_keepa /\ KEEPA_KEY # ""
       THEN \E resp \in KeepaResponses :
              \E res \in _keepa_fetch_related_rest(seed_asin, domain, KEEPA_KEY, max_items, resp) :
                /\ related_asins' = res.out
                /\ msg' = res.msg
                /\ keepaCalled' = TRUE
                /\ keepaResp' = resp
                /\ keepaOut' = res.out
                /\ requests' = Append(requests,
                                      Request("keepa", seed_asin, "api.keepa.com", domain_map(domain)))
       ELSE UNCHANGED <<related_asins, msg, keepaCalled, keepaResp, keepaOut, requests>>
    /\ pc' = "scrape"
    /\ UNCHANGED <<seed_asin, domain, max_items, prefer_keepa, KEEPA_KEY, rows, df,
                   criteria, kept, dropped, validated, scrapeCalled, scrapePage,
                   scrapeOut, fetchLog>>

\* mutant: the scrape runs whatever Keepa returned
NeedsFallback_Always(related) == TRUE

\* line 323: if not related_asins
NeedsFallback(related) == related = <<>>

\* lines 323-330
ScrapeStep ==
    /\ pc = "scrape"
    /\ IF NeedsFallback(related_asins)
       THEN \E page \in DpPages :
              \E res \in _scrape_related_asins_from_dp(seed_asin, domain, max_items, page) :
                /\ scrapeCalled' = TRUE
                /\ scrapePage' = page
                /\ requests' = Append(requests, Request("dp", seed_asin, domain, 0))
                /\ IF res.raised
                   THEN /\ pc' = "crashed"
                        /\ UNCHANGED <<related_asins, scrapeOut>>
                   ELSE /\ related_asins' = res.value
                        /\ scrapeOut' = res.value
                        /\ pc' = IF res.value = <<>> THEN "stopped" ELSE "enrich"
       ELSE /\ pc' = "enrich"
            /\ UNCHANGED <<related_asins, scrapeCalled, scrapePage, scrapeOut, requests>>
    /\ UNCHANGED <<seed_asin, domain, max_items, prefer_keepa, KEEPA_KEY, msg, rows, df,
                   criteria, kept, dropped, validated, keepaCalled, keepaResp, keepaOut,
                   fetchLog>>

\* mutant: a snapshot without a title is not collected
CollectRow_SkipFailed(rs, snap) ==
    IF snap.title.tag = "None" THEN rs ELSE Append(rs, snap)

\* line 337: rows.append(snap)
CollectRow(rs, snap) == Append(rs, snap)

\* lines 335-338: one iteration of the loop
EnrichStep ==
    /\ pc = "enrich"
    /\ Len(fetchLog) < Len(related_asins)
    /\ \E page \in MobilePages :
         LET a == related_asins[Len(fetchLog) + 1]
             res == _fetch_mobile_product_snapshot(a, domain, page)
         IN  /\ requests' = Append(requests, Request("mobile", a, domain, 0))
             /\ fetchLog' = Append(fetchLog, page)
             /\ IF res.raised
                THEN /\ pc' = "crashed"
                     /\ UNCHANGED rows
                ELSE /\ rows' = CollectRow(rows, res.value)
                     /\ pc' = "enrich"
    /\ UNCHANGED <<seed_asin, domain, max_items, prefer_keepa, KEEPA_KEY, related_asins,
                   msg, df, criteria, kept, dropped, validated, keepaCalled, keepaResp,
                   keepaOut, scrapeCalled, scrapePage, scrapeOut>>

\* lines 341-352, with the filter widgets' values read here
FilterStep ==
    /\ pc = "enrich"
    /\ Len(fetchLog) = Len(related_asins)
    /\ \E c \in WidgetCriteria :
         LET frame == DataFrame(rows)
             res == score_and_filter(frame, c)
         IN  /\ df' = frame
             /\ criteria' = c
             /\ kept' = res.kept
             /\ dropped' = res.dropped
    /\ pc' = "done"
    /\ UNCHANGED <<seed_asin, domain, max_items, prefer_keepa, KEEPA_KEY, related_asins,
                   msg, rows, requests, validated, keepaCalled, keepaResp, keepaOut,
                   scrapeCalled, scrapePage, scrapeOut, fetchLog>>

Next == Validate \/ KeepaStep \/ ScrapeStep \/ EnrichStep \/ FilterStep

Spec == Init /\ [][Next]_vars

(***************************************************************************)
(* score_and_filter on its own: the frames pd.DataFrame builds from up to  *)
(* MaxRows snapshots, under every combination of optional thresholds.      *)
(***************************************************************************)
PageBrewTop == MobileResponse(200, FALSE, Str(TitleBrew), Str(Price20), Str(Rating45), Str(Reviews50))

FilterPages == {MobileRaises, PageBrew, PageBrewTop, PageReptile, PageHeat}

\* the identifier of the i-th row
RowAsin(i) == <<"B","0","A","A","A","A","A","A","A", DigitSeq[i + 1]>>

FilterRows ==
    UNION {[1..n -> FilterPages] : n \in 0..MaxRows}

\* the term lists are passed as split, blanks and letter case untouched
FilterCriteria ==
    {Criteria(inc, exc, pmin, pmax, rmin, vmin) :
        inc \in {<<>>, SplitComma(CHOOSE x \in IncludeInputs : x # <<>>)},
        exc \in {<<>>, SplitComma(CHOOSE x \in ExcludeInputs : x # <<>>)},
        pmin \in {NoneNum, Num(1800)},
        pmax \in {NoneNum, Num(1800)},
        rmin \in {NoneNum, Num(430)},
        vmin \in {NoneNum, Num(20)}}

InitFilter ==
    /\ pc = "call"
    /\ seed_asin = SeedUpper
    /\ domain = "amazon.co.uk"
    /\ max_items = 1
    /\ prefer_keepa = FALSE
    /\ KEEPA_KEY = ""
    /\ related_asins = <<>>
    /\ msg = "None"
    /\ \E pages \in FilterRows :
         /\ fetchLog = pages
         /\ rows = [i \in 1..Len(pages) |->
                      _fetch_mobile_product_snapshot(RowAsin(i), domain, pages[i]).value]
    /\ df = <<>>
    /\ criteria \in FilterCriteria
    /\ kept = <<>>
    /\ dropped = <<>>
    /\ requests = <<>>
    /\ validated = FALSE
    /\ keepaCalled = FALSE
    /\ keepaResp = KeepaRaises
    /\ keepaOut = <<>>
    /\ scrapeCalled = FALSE
    /\ scrapePage = DpRaises
    /\ scrapeOut = <<>>

\* kept, dropped = score_and_filter(pd.DataFrame(rows, ...), ...)
ApplyFilter ==
    /\ pc = "call"
    /\ LET frame == DataFrame(rows)
           res == score_and_filter(frame, criteria)
       IN  /\ df' = frame
           /\ kept' = res.kept
           /\ dropped' = res.dropped
    /\ pc' = "returned"
    /\ UNCHANGED <<seed_asin, domain, max_items, prefer_keepa, KEEPA_KEY, related_asins,
                   msg, rows, criteria, requests, validated, keepaCalled, keepaResp,
                   keepaOut, scrapeCalled, scrapePage, scrapeOut, fetchLog>>

NextFilter == ApplyFilter

SpecFilter == InitFilter /\ [][NextFilter]_vars

(***************************************************************************)
(* Properties.                                                             *)
(***************************************************************************)
NoDuplicates(seq) == \A i, j \in DOMAIN seq : seq[i] = seq[j] => i = j

\* the run is past relation discovery
DiscoveryDone == validated /\ pc \in {"enrich", "stopped", "done", "crashed"}

\* score_and_filter has returned
Filtered == pc \in {"done", "returned"}

\* C1, as stated: once discovery is over, the page scrape was invoked if and
\* only if the Keepa source returned an empty result in this run.
C1_ScrapeIffKeepaReturnedEmpty ==
    DiscoveryDone => (scrapeCalled <=> (keepaCalled /\ keepaOut = <<>>))

\* C1, amended: the page scrape is invoked if and only if the Keepa source was
\* not invoked (toggle off or no key) or returned an empty result; Keepa is
\* invoked exactly when the toggle is on and a key is configured; and when
\* Keepa returned a non-empty result the scrape is never invoked and the
\* candidates are exactly Keepa's.
C1_ScrapeIffNoKeepaCandidates ==
    /\ pc \in {"clicked", "keepa", "scrape"} => ~scrapeCalled
    /\ pc \in {"scrape"} \cup {"enrich", "stopped", "done", "crashed"} /\ validated
          => (keepaCalled <=> (prefer_keepa /\ KEEPA_KEY # ""))
    /\ DiscoveryDone => (scrapeCalled <=> (~keepaCalled \/ keepaOut = <<>>))
    /\ keepaCalled /\ keepaOut # <<>> => ~scrapeCalled /\ related_asins = keepaOut

\* C1 witness: Keepa was asked, returned nothing, and the scrape supplied the
\* candidates that were then enriched.
C1_Witness ==
    pc = "done" /\ keepaCalled /\ keepaOut = <<>> /\ scrapeCalled /\ related_asins = scrapeOut

\* C2: neither source's result, nor the list handed to enrichment, contains the
\* seed, in any letter case.
C2_SeedExcluded ==
    \A x \in Range(keepaOut) \cup Range(scrapeOut) \cup Range(related_asins) :
        x # seed_asin /\ upper(x) # upper(seed_asin)

\* C2 witness: a source whose payload named the seed (in lower case) returned
\* candidates.
C2_Witness ==
    \/ /\ keepaCalled /\ keepaOut # <<>>
       /\ SeedLower \in Range(RelationEntries(keepaResp.products[1]))
    \/ /\ scrapeCalled /\ scrapeOut # <<>>
       /\ SeedLower \in Range(scrapePage.dataAsins)

\* C3: each source's result has at most max_items entries and no duplicate,
\* and so has the list handed to enrichment.
C3_CappedNoDuplicates ==
    /\ Len(keepaOut) <= max_items /\ NoDuplicates(keepaOut)
    /\ Len(scrapeOut) <= max_items /\ NoDuplicates(scrapeOut)
    /\ Len(related_asins) <= max_items /\ NoDuplicates(related_asins)

\* C3 witness: Keepa named more distinct candidates than max_items, some of
\* them twice, and the result was cut to max_items.
C3_Witness ==
    /\ keepaCalled /\ keepaResp.kind = "json" /\ keepaResp.products # <<>>
    /\ Cardinality(KeepaRelatedSet(seed_asin, keepaResp.products[1])) > max_items
    /\ ~NoDuplicates(RelationEntries(keepaResp.products[1]))
    /\ Len(keepaOut) = max_items

\* C4: enrichment yields one snapshot per fetched identifier, the i-th for the
\* i-th identifier, whatever the fetches did; when it ends there is exactly one
\* per discovered identifier, and the frame has the same rows.
C4_OneSnapshotPerIdentifier ==
    /\ pc \in {"enrich", "done"} =>
          /\ Len(rows) = Len(fetchLog)
          /\ Len(rows) <= Len(related_asins)
          /\ \A i \in DOMAIN rows : rows[i].asin = related_asins[i]
    /\ pc = "done" =>
          /\ Len(rows) = Len(related_asins)
          /\ Len(df) = Len(related_asins)
          /\ \A i \in DOMAIN df : df[i].asin = related_asins[i]

\* a fetch that failed: transport error, non-200 status or an exception while
\* parsing
MobileFailed(page) ==
    \/ page.kind = "transport_error"
    \/ page.status # 200
    \/ page.parseError
    \/ ReviewsRaises(page)

\* C4 witness: a batch of two in which one fetch failed and one succeeded.
C4_Witness ==
    /\ pc = "done" /\ Len(related_asins) = 2
    /\ MobileFailed(fetchLog[1]) /\ ~MobileFailed(fetchLog[2])

\* the exclude terms as matched: blanks trimmed, lower case, empty ones left out
ExcludeHit(row, c) ==
    \E i \in DOMAIN c.exclude_terms :
        /\ strip(c.exclude_terms[i]) # <<>>
        /\ Contains(lower(strip(c.exclude_terms[i])), WorkTitle(row.title))

InSeq(seq, id) == \E j \in DOMAIN seq : seq[j].idx = id

\* C5: a snapshot whose lower-cased title contains a non-blank exclude term is
\* in dropped with score 0 and not in kept, whatever its include hits, its
\* values and the thresholds.
C5_ExcludeVeto ==
    Filtered =>
        \A i \in DOMAIN df :
            ExcludeHit(df[i], criteria) =>
                /\ \E j \in DOMAIN dropped :
                      dropped[j].idx = df[i].idx /\ dropped[j].RelevanceScore = 0
                /\ ~InSeq(kept, df[i].idx)

\* C5 witness: a row that hits an exclude term, hits an include term too and
\* fails no threshold.
C5_Witness ==
    /\ pc = "returned"
    /\ \E i \in DOMAIN df :
          /\ ExcludeHit(df[i], criteria)
          /\ IncludeScore(WorkTitle(df[i].title), NormalizeTerms(criteria.include_terms)) > 0
          /\ ~ThresholdDrop(df[i], criteria)

\* C6, as stated: with rating_min set, every snapshot that enrichment produced
\* without a rating is dropped and not kept.
C6_MissingRatingDropped ==
    pc = "done" /\ criteria.rating_min.tag # "None" =>
        \A i \in DOMAIN rows :
            rows[i].rating.tag = "None" =>
                InSeq(dropped, i - 1) /\ ~InSeq(kept, i - 1)

\* the sort key of C7, a missing review count or rating ranking below every number
KeyGreater(a, b) ==
    LET gt(x, y) == x.tag = "num" /\ (y.tag # "num" \/ x.v > y.v)
        eq(x, y) == (x.tag = "num") = (y.tag = "num") /\ (x.tag = "num" => x.v = y.v)
    IN  \/ a.RelevanceScore > b.RelevanceScore
        \/ a.RelevanceScore = b.RelevanceScore /\ gt(a.reviews, b.reviews)
        \/ a.RelevanceScore = b.RelevanceScore /\ eq(a.reviews, b.reviews)
              /\ gt(a.rating, b.rating)

KeyEqual(a, b) == ~KeyGreater(a, b) /\ ~KeyGreater(b, a)

\* C7: kept holds exactly the rows that are not dropped, each once, in
\* descending order of (score, reviews, rating), rows of equal key in their
\* input order.
C7_KeptSortedStable ==
    Filtered =>
        /\ \A i \in DOMAIN df : InSeq(kept, df[i].idx) = ~InSeq(dropped, df[i].idx)
        /\ Len(kept) + Len(dropped) = Len(df)
        /\ \A i, j \in DOMAIN kept :
              i < j => /\ ~KeyGreater(kept[j], kept[i])
                       /\ KeyEqual(kept[i], kept[j]) => kept[i].idx < kept[j].idx

\* C7 witness: three kept rows, a lower-scored row with more reviews placed
\* behind a higher-scored one that came later in the input, and two rows of
\* equal key.
C7_Witness ==
    /\ pc = "returned" /\ Len(kept) = 3
    /\ \E i, j \in DOMAIN kept :
          /\ i < j /\ kept[i].idx > kept[j].idx
          /\ kept[i].RelevanceScore > kept[j].RelevanceScore
          /\ kept[i].reviews.v < kept[j].reviews.v
    /\ \E i, j \in DOMAIN kept : i < j /\ KeyEqual(kept[i], kept[j])

\* C8: no request is issued before the seed has matched the pattern, a seed
\* that fails it ends the run with no request, and every identifier sent in a
\* request is in canonical upper-case form.
C8_ValidatedBeforeNetwork ==
    /\ requests # <<>> => validated /\ IsAsin(seed_asin)
    /\ \A i \in DOMAIN requests : IsAsin(requests[i].asin)
    /\ pc \in {"keepa", "scrape", "enrich", "done"} => validated /\ IsAsin(seed_asin)
    /\ ~SeedPatternOK(seed_asin) /\ pc # "clicked" => pc = "stopped" /\ requests = <<>>

\* C8 witness: a seed passed validation, and a Keepa request and
\* enrichment requests followed.
C8_Witness ==
    /\ pc = "done" /\ seed_asin = SeedUpper
    /\ \E i, j \in DOMAIN requests : requests[i].kind = "keepa" /\ requests[j].kind = "mobile"

\* the first occurrence of each element, in order
RECURSIVE FirstSeen(_)
FirstSeen(seq) ==
    IF seq = <<>> THEN <<>>
    ELSE LET front == FirstSeen(SubSeq(seq, 1, Len(seq) - 1))
             x == seq[Len(seq)]
         IN  IF x \in Range(front) THEN front ELSE Append(front, x)

\* the valid identifiers of a product's relation fields, upper-cased, in
\* first-seen order, the seed left out
FirstSeenRelated(asin, p) ==
    LET es == RelationEntries(p)
        ups == [i \in 1..Len(es) |-> upper(es[i])]
    IN  FirstSeen(SelectSeq(ups, LAMBDA x : IsAsin(x) /\ x # upper(asin)))

\* C9, as stated: for a response with a product, Keepa's result is the first
\* max_items identifiers in first-seen order across the four relation fields.
C9_FirstSeenOrder ==
    keepaCalled /\ keepaResp.kind = "json" /\ keepaResp.error = "" /\ keepaResp.products # <<>>
        => keepaOut = Take(FirstSeenRelated(seed_asin, keepaResp.products[1]), max_items)

\* a scrape that failed
DpFailed(page) == page.kind = "transport_error" \/ page.status # 200 \/ page.parseError

\* C10: no exception leaves the scrape or a snapshot fetch; a failed scrape
\* returns no candidate; a failed fetch yields the snapshot of its identifier
\* with title, price, rating and reviews None and the /dp/ URL; and the batch
\* goes on to its end.
C10_FailuresContained ==
    /\ pc # "crashed"
    /\ scrapeCalled /\ DpFailed(scrapePage) => scrapeOut = <<>> /\ related_asins = <<>>
    /\ pc \in {"enrich", "done"} => Len(rows) = Len(fetchLog)
    /\ \A i \in DOMAIN rows :
          i <= Len(fetchLog) /\ MobileFailed(fetchLog[i]) =>
              /\ rows[i].asin = related_asins[i]
              /\ rows[i].title = NoneStr
              /\ rows[i].price = NoneNum
              /\ rows[i].rating = NoneNum
              /\ rows[i].reviews = NoneNum
              /\ rows[i].url = [host |-> domain, path |-> "/dp/", asin |-> related_asins[i]]
    /\ pc = "done" => Len(rows) = Len(related_asins)

\* C10 witness: the first fetch of a batch raised while parsing, the second
\* returned a full snapshot.
C10_Witness ==
    /\ pc = "done" /\ Len(rows) = 2
    /\ fetchLog[1].kind = "response" /\ fetchLog[1].status = 200 /\ MobileFailed(fetchLog[1])
    /\ rows[2].title # NoneStr /\ rows[2].rating.tag = "num"

====
